---- MODULE Spec2Model ----
(***************************************************************************)
(* Verification model of the BehaviorGPT scenario-generation code:         *)
(*   - transforms/sim_agent_filter.py    SimAgentFilter.__call__           *)
(*   - transforms/sim_target_builder.py  SimTargetBuilder.__call__         *)
(*   - modules/behavior_gpt_decoder.py   graph construction in forward     *)
(*   - simulators/behavior_gpt.py        test_step (autoregressive rollout)*)
(* Tensor indices are 0-based, as in the Python source.  Planar distances  *)
(* are compared through their squares (the ordering torch.topk sees is the *)
(* same); angles are counted in quarter turns so that cos and sin are      *)
(* exact integers.                                                         *)
(***************************************************************************)
EXTENDS Integers, Sequences, FiniteSets, TLC

VARIABLES fin, fout, fstat, gin, gout, gstat, tin, tout, tstat, ro, pair

filterVars == <<fin, fout, fstat>>
graphVars == <<gin, gout, gstat>>
targetVars == <<tin, tout, tstat>>
vars == <<fin, fout, fstat, gin, gout, gstat, tin, tout, tstat, ro, pair>>

(***************************************************************************)
(* Generic helpers                                                         *)
(***************************************************************************)
Min(a, b) == IF a <= b THEN a ELSE b

\* torch.unique / torch.where order: the ascending sequence of a set of ints
RECURSIVE SortedSeq(_)
SortedSeq(S) ==
    IF S = {} THEN <<>>
    ELSE LET m == CHOOSE x \in S : \A y \in S : x <= y
         IN  <<m>> \o SortedSeq(S \ {m})

SeqRange(s) == {s[i] : i \in 1..Len(s)}

\* squared planar distance of two <<x, y>> points
Dist2(p, q) == (p[1] - q[1]) * (p[1] - q[1]) + (p[2] - q[2]) * (p[2] - q[2])

(***************************************************************************)
(* SimAgentFilter                                                          *)
(***************************************************************************)
\* number of agents of an input scene (data['agent']['num_nodes'])
NumAgents == 3
\* the agent budget (constructor argument max_num_agents)
MaxNumAgents == 2
\* constructor argument num_historical_steps
NumHistoricalSteps == 1
\* the timesteps of a scene handed to the filter
FilterSteps == 0..1
\* the coordinates an input position may take
FilterCoords == 0..1

\* torch.finfo(torch.float).max, above every squared distance of the model
FloatMax == 1000
\* torch.iinfo(torch.long).min, below every count of valid timesteps
LongMin == 0 - 1000

\* the agent indices of a scene
AgentsOf(data) == 0..(data.num_nodes - 1)

\* the input scenes with n agents: per-agent id, validity, track-to-predict
\* flag and position at the reference timestep, and the ego index; the other
\* per-agent tensors carry a value that tells the agents apart
ScenesOfSize(n) ==
    [num_nodes   : {n},
     av_index    : 0..(n - 1),
     id          : {[a \in 0..(n - 1) |-> 100 + a]},
     valid_mask  : [0..(n - 1) -> [FilterSteps -> BOOLEAN]],
     target_mask : [0..(n - 1) -> BOOLEAN],
     position    : [0..(n - 1) -> {<<x, 0>> : x \in FilterCoords}],
     type        : {[a \in 0..(n - 1) |-> a % 5]},
     heading     : {[a \in 0..(n - 1) |-> 10 + a]},
     velocity    : {[a \in 0..(n - 1) |-> 20 + a]},
     length      : {[a \in 0..(n - 1) |-> 30 + a]},
     width       : {[a \in 0..(n - 1) |-> 40 + a]},
     height      : {[a \in 0..(n - 1) |-> 50 + a]}]

FilterScenes == ScenesOfSize(NumAgents - 1) \cup ScenesOfSize(NumAgents)

\* torch.topk(vals, k, largest)[1]: every set of k indices no index outside
\* of which beats one inside (ties are resolved by the library, in any way)
TopK(vals, k, largest) ==
    {S \in SUBSET (DOMAIN vals) :
        /\ Cardinality(S) = k
        /\ \A i \in S : \A j \in (DOMAIN vals) \ S :
              IF largest THEN vals[i] >= vals[j] ELSE vals[i] <= vals[j]}

\* agent_inds after "add sdv and track_to_predict": the ego alone
EgoOnlyAgentInds(data) == <<data.av_index>>

\* agent_inds after "add sdv and track_to_predict"
InitialAgentInds(data) ==
    <<data.av_index>> \o SortedSeq({a \in AgentsOf(data) : data.target_mask[a]})

\* a budget that forgets the agents already selected
ContextBudgetFull(agent_inds) == MaxNumAgents

\* max_num_context_agents
ContextBudget(agent_inds) == MaxNumAgents - Len(agent_inds)

\* valid_dist_mask
ValidDistMask(data, agent_inds) ==
    [a \in AgentsOf(data) |->
        data.valid_mask[a][NumHistoricalSteps - 1] /\ a \notin SeqRange(agent_inds)]

\* dist after masking with valid_dist_mask
MaskedDist(data, agent_inds) ==
    [a \in AgentsOf(data) |->
        IF ValidDistMask(data, agent_inds)[a]
        THEN Dist2(data.position[a], data.position[data.av_index])
        ELSE FloatMax]

\* valid_state_mask
ValidStateMask(data, agent_inds) ==
    [a \in AgentsOf(data) |-> a \notin SeqRange(agent_inds)]

\* num_states after masking with valid_state_mask
MaskedNumStates(data, agent_inds) ==
    [a \in AgentsOf(data) |->
        IF ValidStateMask(data, agent_inds)[a]
        THEN Cardinality({s \in FilterSteps : data.valid_mask[a][s]})
        ELSE LongMin]

\* agent_inds kept as concatenated, duplicates included
KeepDuplicates(agent_inds) == agent_inds

\* torch.unique(agent_inds)
UniqueInds(agent_inds) == SortedSeq(SeqRange(agent_inds))

\* the value assigned to data['agent']['av_index']
NewAvIndex(data, agent_inds) == 0

\* the re-indexed scene: every per-agent tensor indexed by agent_inds
Reindexed(data, agent_inds) ==
    LET n   == Len(agent_inds)
        sel(field) == [i \in 0..(n - 1) |-> field[agent_inds[i + 1]]]
    IN  [num_nodes   |-> n,
         av_index    |-> NewAvIndex(data, agent_inds),
         valid_mask  |-> sel(data.valid_mask),
         target_mask |-> sel(data.target_mask),
         id          |-> sel(data.id),
         type        |-> sel(data.type),
         position    |-> sel(data.position),
         heading     |-> sel(data.heading),
         velocity    |-> sel(data.velocity),
         length      |-> sel(data.length),
         width       |-> sel(data.width),
         height      |-> sel(data.height)]

NoScene == [num_nodes |-> 0]

\* SimAgentFilter.__call__ on the scene fin
FilterCall ==
    /\ fstat = "input"
    /\ IF fin.num_nodes <= MaxNumAgents
       THEN /\ fout' = fin
            /\ fstat' = "returned"
       ELSE LET inds0 == InitialAgentInds(fin)
                k1    == Min(ContextBudget(inds0), fin.num_nodes)
            IN  IF k1 < 0
                THEN \* torch.topk rejects a negative k
                     /\ fout' = NoScene
                     /\ fstat' = "raised"
                ELSE \E c1 \in TopK(MaskedDist(fin, inds0), k1, FALSE) :
                       LET ctx1  == {a \in c1 : ValidDistMask(fin, inds0)[a]}
                           inds1 == inds0 \o SortedSeq(ctx1)
                           k2    == Min(ContextBudget(inds1), fin.num_nodes)
                       IN  IF ContextBudget(inds1) > 0
                           THEN \E c2 \in TopK(MaskedNumStates(fin, inds1), k2, TRUE) :
                                  LET ctx2  == {a \in c2 : ValidStateMask(fin, inds1)[a]}
                                      inds2 == inds1 \o SortedSeq(ctx2)
                                  IN  /\ fout' = Reindexed(fin, UniqueInds(inds2))
                                      /\ fstat' = "returned"
                           ELSE /\ fout' = Reindexed(fin, UniqueInds(inds1))
                                /\ fstat' = "returned"
    /\ UNCHANGED <<fin, graphVars, targetVars, ro, pair>>

(***************************************************************************)
(* BehaviorGPTDecoder.forward: construction of the four edge sets          *)
(* An edge is <<edge_index[0], edge_index[1]>>.                            *)
(***************************************************************************)
\* number of timesteps (num_steps) of the long scenes
NumSteps == 11
\* number of timesteps (num_steps) of the short multi-agent scenes
ShortSteps == 2
\* num_m2a_nbrs and num_a2a_nbrs
NumM2ANbrs == 1
NumA2ANbrs == 1
\* the window of the patch graph and the stride of the full temporal graph,
\* as written in forward
PatchWindow == 10
TemporalStride == 10
\* the distance cutoff of the all-pairs fallback
DistCutoff == 20
\* Python's None, for the time_span option
None == 0 - 1
\* the time_span options tried
TimeSpans == {None, 3, 10}
\* the coordinates of agents and map points: nearer and farther than the cutoff
GraphCoords == {0, 30}

\* BehaviorGPTDecoder.__init__: self.time_span
TimeSpanOf(time_span, num_steps) ==
    IF time_span # None THEN time_span ELSE num_steps

\* number of scenes of a batch (data.num_graphs), from a ptr vector
NumGraphs(ptr) == Len(ptr) - 1

\* data['agent']['batch'] / data['map_point']['batch'] as the collater derives
\* it from ptr: the scene of node n
BatchOf(ptr, n) == CHOOSE g \in 0..(NumGraphs(ptr) - 1) : ptr[g + 1] <= n /\ n < ptr[g + 2]

\* a batch of scenes: agents and map points delimited by ptr (ptr[1] = 0),
\* every agent at rest at a coordinate of xs
GraphData(steps, aptr, mptr, spans, availability, masks, xs) ==
    LET A == aptr[Len(aptr)]
        M == mptr[Len(mptr)]
    IN  [num_steps  : {steps},
         time_span  : spans,
         is_torch_cluster_available : availability,
         num_nodes  : {A},
         ptr        : {aptr},
         valid_mask : masks,
         position   : {[a \in 0..(A - 1) |-> [t \in 0..(steps - 1) |-> <<x[a], 0>>]] :
                          x \in [0..(A - 1) -> xs]},
         map_num_nodes : {M},
         map_ptr    : {mptr},
         map_position : {[m \in 0..(M - 1) |-> <<x[m], 0>>] :
                          x \in [0..(M - 1) -> xs]}]

\* the validity patterns of the second agent of a long scene
LongPatterns ==
    {[t \in 0..(NumSteps - 1) |-> TRUE],
     [t \in 0..(NumSteps - 1) |-> t % 5 = 0],
     [t \in 0..(NumSteps - 1) |-> FALSE]}

\* long scenes: a scene of one agent and a scene of two, one map point each,
\* on the neighbour-search path; the first agent with any validity pattern,
\* the last one always valid
LongScenes ==
    GraphData(NumSteps, <<0, 1, 3>>, <<0, 1, 2>>, TimeSpans, {TRUE},
              {[a \in 0..2 |-> IF a = 0 THEN m0
                               ELSE IF a = 1 THEN m1
                               ELSE [t \in 0..(NumSteps - 1) |-> TRUE]] :
                  m0 \in [0..(NumSteps - 1) -> BOOLEAN], m1 \in LongPatterns},
              {0})

\* short scenes: two scenes sharing three agents and three map points; the
\* first two agents with any validity pattern, the last one always valid
ShortScenes ==
    UNION {GraphData(ShortSteps, aptr, <<0, 1, 3>>, {10}, BOOLEAN,
                     {[a \in 0..2 |-> IF a = 0 THEN m0
                                      ELSE IF a = 1 THEN m1
                                      ELSE [t \in 0..(ShortSteps - 1) |-> TRUE]] :
                         m0 \in [0..(ShortSteps - 1) -> BOOLEAN],
                         m1 \in [0..(ShortSteps - 1) -> BOOLEAN]},
                     GraphCoords) :
              aptr \in {<<0, 1, 3>>, <<0, 2, 3>>}}

GraphInputs == LongScenes \cup ShortScenes

NumTNodes(data) == data.num_nodes * data.num_steps

\* mask.reshape(-1): agent-major flattening, node a * num_steps + t
MaskT(data) ==
    [n \in 0..(NumTNodes(data) - 1) |->
        data.valid_mask[n \div data.num_steps][n % data.num_steps]]

\* pos_a.reshape(-1, input_dim)
PosT(data) ==
    [n \in 0..(NumTNodes(data) - 1) |->
        data.position[n \div data.num_steps][n % data.num_steps]]

\* mask.transpose(0, 1).reshape(-1): time-major flattening, node t * num_nodes + a
MaskS(data) ==
    [n \in 0..(NumTNodes(data) - 1) |->
        data.valid_mask[n % data.num_nodes][n \div data.num_nodes]]

\* pos_a.transpose(0, 1).reshape(-1, input_dim)
PosS(data) ==
    [n \in 0..(NumTNodes(data) - 1) |->
        data.position[n % data.num_nodes][n \div data.num_nodes]]

\* mask.unsqueeze(2) & mask.unsqueeze(1): one [T, T] adjacency per agent
MaskTT(data) ==
    [a \in 0..(data.num_nodes - 1) |->
        [i \in 0..(data.num_steps - 1) |->
            [j \in 0..(data.num_steps - 1) |->
                data.valid_mask[a][i] /\ data.valid_mask[a][j]]]]

\* the non-zero entries (b, i, j) of a batched adjacency
NonZero(adj, size) ==
    {x \in (DOMAIN adj) \X (0..(size - 1)) \X (0..(size - 1)) : adj[x[1]][x[2]][x[3]]}

\* a flattening of the batched adjacency that drops the per-agent offset
DenseToSparseNoOffset(adj, size) ==
    {<<x[2], x[3]>> : x \in NonZero(adj, size)}

\* torch_geometric.utils.dense_to_sparse of a batched adjacency: entry
\* (b, i, j) becomes the edge (b * size + i, b * size + j)
DenseToSparse(adj, size) ==
    {<<x[1] * size + x[2], x[1] * size + x[3]>> : x \in NonZero(adj, size)}

\* a filter that only drops the self loops
OtherDestination(edges) == {e \in edges : e[2] # e[1]}

\* edge_index_t[:, edge_index_t[1] > edge_index_t[0]]
LaterDestination(edges) == {e \in edges : e[2] > e[1]}

\* a patch window that lets the gap reach 10
PatchEdgesInclusive(edges) == {e \in edges : e[2] - e[1] <= PatchWindow}

\* edge_index_t[:, edge_index_t[1] - edge_index_t[0] < 10]
PatchEdges(edges) == {e \in edges : e[2] - e[1] < PatchWindow}

\* edge_index_t[:, (edge_index_t[1] - edge_index_t[0]) % 10 == 0]
StrideEdges(edges) == {e \in edges : (e[2] - e[1]) % TemporalStride = 0}

\* edge_index_patch
EdgeIndexPatch(data) ==
    PatchEdges(LaterDestination(DenseToSparse(MaskTT(data), data.num_steps)))

\* edge_index_t, as handed to the temporal attention layers
EdgeIndexT(data) ==
    StrideEdges(LaterDestination(DenseToSparse(MaskTT(data), data.num_steps)))

\* the candidates of query q: the points of x in the batch of q
KnnCandidates(q, batch_x, batch_y) ==
    {c \in DOMAIN batch_x : batch_x[c] = batch_y[q]}

\* the selections torch_cluster may make for one query: k nearest candidates
\* (all of them when there are fewer), ties resolved in any way
KnnChoices(cands, dist, k) ==
    {S \in SUBSET cands :
        /\ Cardinality(S) = Min(k, Cardinality(cands))
        /\ \A i \in S : \A j \in cands \ S : dist[i] <= dist[j]}

\* torch_cluster.knn(x, y, k, batch_x, batch_y): every result the search may
\* return, as pairs <<index into y, index into x>>
RECURSIVE KnnOver(_, _, _, _, _, _)
KnnOver(Q, x, y, k, batch_x, batch_y) ==
    IF Q = {} THEN {{}}
    ELSE LET q     == CHOOSE n \in Q : \A m \in Q : n <= m
             cands == KnnCandidates(q, batch_x, batch_y)
             dist  == [c \in cands |-> Dist2(x[c], y[q])]
         IN  {r \cup {<<q, c>> : c \in S} :
                 r \in KnnOver(Q \ {q}, x, y, k, batch_x, batch_y),
                 S \in KnnChoices(cands, dist, k)}

Knn(x, y, k, batch_x, batch_y) == KnnOver(DOMAIN y, x, y, k, batch_x, batch_y)

\* torch_cluster.knn_graph(x, k, batch, loop=False), flow source_to_target:
\* pairs <<neighbour, query>>, the query itself excluded
RECURSIVE KnnGraphOver(_, _, _, _)
KnnGraphOver(Q, x, k, batch) ==
    IF Q = {} THEN {{}}
    ELSE LET q     == CHOOSE n \in Q : \A m \in Q : n <= m
             cands == KnnCandidates(q, batch, batch) \ {q}
             dist  == [c \in cands |-> Dist2(x[c], x[q])]
         IN  {r \cup {<<c, q>> : c \in S} :
                 r \in KnnGraphOver(Q \ {q}, x, k, batch),
                 S \in KnnChoices(cands, dist, k)}

KnnGraph(x, k, batch) == KnnGraphOver(DOMAIN x, x, k, batch)

\* utils.complete_graph(num_nodes=(n_src, n_dst), ptr=(ptr_src, ptr_dst)):
\* all pairs of a source and a destination of the same ptr block
CompleteGraphBipartite(ptr_src, ptr_dst) ==
    UNION {{<<i, j>> : i \in ptr_src[g]..(ptr_src[g + 1] - 1),
                       j \in ptr_dst[g]..(ptr_dst[g + 1] - 1)}
           : g \in 1..(Len(ptr_src) - 1)}

\* utils.complete_graph(num_nodes=n, ptr=ptr, loop=False): all pairs of two
\* different nodes of the same ptr block
CompleteGraph(ptr) ==
    {e \in CompleteGraphBipartite(ptr, ptr) : e[1] # e[2]}

\* torch_geometric.utils.subgraph(subset=mask, edge_index): the edges with
\* both ends in the subset
Subgraph(mask, edges) == {e \in edges : mask[e[1]] /\ mask[e[2]]}

\* dist < 20.0
WithinCutoff(p, q) == Dist2(p, q) < DistCutoff * DistCutoff

\* the batch vector a single (unbatched) scene gets: pos_t.new_zeros(...)
BatchTZeros(data) == [n \in 0..(NumTNodes(data) - 1) |-> 0]

\* batch_t = data['agent']['batch'].repeat_interleave(num_steps)
BatchT(data) ==
    [n \in 0..(NumTNodes(data) - 1) |-> BatchOf(data.ptr, n \div data.num_steps)]

\* batch_m = data['map_point']['batch']
BatchM(data) == [m \in 0..(data.map_num_nodes - 1) |-> BatchOf(data.map_ptr, m)]

\* batch_s = cat([batch + num_graphs * t for t in range(num_steps)])
BatchS(data) ==
    [n \in 0..(NumTNodes(data) - 1) |->
        BatchOf(data.ptr, n % data.num_nodes)
          + NumGraphs(data.ptr) * (n \div data.num_nodes)]

\* agent_ptr_t = cat([0, (num_agents_batch * num_steps).cumsum(0)])
AgentPtrT(data) == [g \in 1..Len(data.ptr) |-> data.ptr[g] * data.num_steps]

\* agent_ptr_s = cat([0] + [ptr[1:] + num_nodes * t for t in range(num_steps)])
AgentPtrS(data) ==
    LET G == NumGraphs(data.ptr)
    IN  [i \in 1..(G * data.num_steps + 1) |->
            IF i = 1 THEN 0
            ELSE data.ptr[((i - 2) % G) + 2] + data.num_nodes * ((i - 2) \div G)]

\* the results the map-to-agent search may return, before masking
M2ACandidates(data) ==
    IF data.is_torch_cluster_available
    THEN \* edge_index_m2a[[1, 0]]
         {{<<e[2], e[1]>> : e \in r} :
             r \in Knn(data.map_position, PosT(data), NumM2ANbrs,
                       BatchM(data), BatchT(data))}
    ELSE {CompleteGraphBipartite(data.map_ptr, AgentPtrT(data))}

\* a filter that omits the mask of line 199
M2AUnmasked(data, edges) ==
    IF data.is_torch_cluster_available THEN edges
    ELSE {e \in edges : WithinCutoff(data.map_position[e[1]], PosT(data)[e[2]])}

\* edge_index_m2a[:, mask_t[edge_index_m2a[1]]], then the distance cutoff of
\* the fallback
M2AFiltered(data, edges) ==
    LET masked == {e \in edges : MaskT(data)[e[2]]}
    IN  IF data.is_torch_cluster_available THEN masked
        ELSE {e \in masked : WithinCutoff(data.map_position[e[1]], PosT(data)[e[2]])}

\* the results the agent-to-agent search may return, before masking
A2ACandidates(data) ==
    IF data.is_torch_cluster_available
    THEN KnnGraph(PosS(data), NumA2ANbrs, BatchS(data))
    ELSE {CompleteGraph(AgentPtrS(data))}

\* subgraph(subset=mask_s, ...), then the distance cutoff of the fallback
A2AFiltered(data, edges) ==
    LET masked == Subgraph(MaskS(data), edges)
    IN  IF data.is_torch_cluster_available THEN masked
        ELSE {e \in masked : WithinCutoff(PosS(data)[e[1]], PosS(data)[e[2]])}

NoGraphs == [built |-> FALSE]

\* the graph construction of one forward pass on the batch gin; m2a_queried
\* keeps the (agent, timestep) nodes the map-to-agent search returned edges for
Forward ==
    /\ gstat = "input"
    /\ \E m2a \in M2ACandidates(gin) : \E a2a \in A2ACandidates(gin) :
          gout' = [built |-> TRUE,
                   m2a_queried      |-> {e[2] : e \in m2a},
                   edge_index_patch |-> EdgeIndexPatch(gin),
                   edge_index_t     |-> EdgeIndexT(gin),
                   edge_index_m2a   |-> M2AFiltered(gin, m2a),
                   edge_index_a2a   |-> A2AFiltered(gin, a2a)]
    /\ gstat' = "built"
    /\ UNCHANGED <<gin, filterVars, targetVars, ro, pair>>

(***************************************************************************)
(* SimTargetBuilder.__call__ and the predict_mask of training_step         *)
(* Headings are counted in quarter turns.                                  *)
(***************************************************************************)
\* number of timesteps of a scene handed to the target builder
TargetSteps == 3
\* the number of look-ahead offsets, range(10)
NumOffsets == 10
\* the positions <<x, y, z>>, headings and velocities <<vx, vy>> of the scenes
TargetPositions == {<<0, 0, 0>>, <<1, 2, 1>>}
TargetHeadings == {0, 1}
TargetVelocities == {<<0, 0>>, <<1, 0>>}

\* head.cos() and head.sin() of a heading in quarter turns
Cos(h) == CASE h % 4 = 0 -> 1 [] h % 4 = 1 -> 0 [] h % 4 = 2 -> 0 - 1 [] OTHER -> 0
Sin(h) == CASE h % 4 = 0 -> 0 [] h % 4 = 1 -> 1 [] h % 4 = 2 -> 0 [] OTHER -> 0 - 1

\* utils.wrap_angle: the equivalent heading in (-pi, pi], in quarter turns
WrapAngle(h) == IF h % 4 > 2 THEN (h % 4) - 4 ELSE h % 4

\* v @ rot_mat with rot_mat = [[cos, -sin], [sin, cos]] of heading h
ToLocal(v, h) == <<v[1] * Cos(h) + v[2] * Sin(h), v[2] * Cos(h) - v[1] * Sin(h)>>

\* the scenes of one agent handed to the target builder
TargetScenes ==
    [valid_mask : [0..(TargetSteps - 1) -> BOOLEAN],
     position   : [0..(TargetSteps - 1) -> TargetPositions],
     heading    : [0..(TargetSteps - 1) -> TargetHeadings],
     velocity   : [0..(TargetSteps - 1) -> TargetVelocities]]

\* pos.size(-2)
StepsOf(data) == Cardinality(DOMAIN data.position)

\* the entries (s, k) the slice [:, :-k - 1, k] of a tensor of n steps covers
InSlice(n, s, k) == s + k + 1 <= n - 1

\* new_zeros(..., 6)
ZeroTarget == <<0, 0, 0, 0, 0, 0>>

\* what the loop body writes to target[:, s, k] of an entry of the slice
TargetEntry(data, s, k) ==
    LET d == ToLocal(<<data.position[s + k + 1][1] - data.position[s][1],
                       data.position[s + k + 1][2] - data.position[s][2]>>,
                     data.heading[s])
        v == ToLocal(data.velocity[s + k + 1], data.heading[s])
    IN  <<d[1], d[2],
          data.position[s + k + 1][3] - data.position[s][3],
          v[1], v[2],
          WrapAngle(data.heading[s + k + 1] - data.heading[s])>>

\* data['agent']['target'] of one agent
BuildTarget(data) ==
    [s \in 0..(StepsOf(data) - 1) |->
        [k \in 0..(NumOffsets - 1) |->
            IF InSlice(StepsOf(data), s, k) THEN TargetEntry(data, s, k)
            ELSE ZeroTarget]]

\* a predict_mask that looks at the anchor timestep only
PredictMaskAnchorOnly(data) ==
    [s \in 0..(StepsOf(data) - 1) |->
        [k \in 0..(NumOffsets - 1) |->
            InSlice(StepsOf(data), s, k) /\ data.valid_mask[s]]]

\* predict_mask of training_step and validation_step
PredictMask(data) ==
    [s \in 0..(StepsOf(data) - 1) |->
        [k \in 0..(NumOffsets - 1) |->
            /\ InSlice(StepsOf(data), s, k)
            /\ data.valid_mask[s] /\ data.valid_mask[s + k + 1]]]

NoTarget == [built |-> FALSE]

\* SimTargetBuilder.__call__ on the scene tin
TargetCall ==
    /\ tstat = "input"
    /\ tout' = [built |-> TRUE, target |-> BuildTarget(tin)]
    /\ tstat' = "built"
    /\ UNCHANGED <<tin, filterVars, graphVars, ro, pair>>

\* the predict_mask computation that opens training_step
TrainingStep ==
    /\ tstat = "built"
    /\ tout' = [built |-> TRUE, target |-> tout.target,
                predict_mask |-> PredictMask(tin)]
    /\ tstat' = "trained"
    /\ UNCHANGED <<tin, filterVars, graphVars, ro, pair>>

(***************************************************************************)
(* BehaviorGPT.test_step: the autoregressive rollout                       *)
(* A run is a record: configuration, random generator (seed and number of  *)
(* draws made), scene, loop counters and position in test_step.            *)
(***************************************************************************)
\* num_action_steps
NumActionSteps == 10
\* the number of rollout samples tried (test_step runs range(32))
NumSamples == 2
\* the number of mixture modes tried (the constructor sets num_modes = 16)
NumModes == 2
\* num_init_steps
NumInitSteps == 2
\* the num_rollout_steps options tried
RolloutHorizons == {10, 15, 20}
\* the pos_dim options
PosDims == {2, 3}
\* the seeds tried: 0..MaxSeed
MaxSeed == 7
\* the agents of a rollout scene
RolloutAgents == 0..1

RECURSIVE Pow(_, _)
Pow(b, n) == IF n = 0 THEN 1 ELSE b * Pow(b, n - 1)

RECURSIVE SumOver(_, _)
SumOver(S, f) ==
    IF S = {} THEN 0
    ELSE LET x == CHOOSE y \in S : TRUE IN f[x] + SumOver(S \ {x}, f)

\* the n-th draw of the generator seeded with seed: the n-th digit of the seed
Gen(seed, n) == (seed \div Pow(NumModes, n)) % NumModes

\* torch.multinomial(F.softmax(pi), num_samples=1): the mode index the
\* generator's draw u selects from the distribution of logits pi
Multinomial(pi, u) == (pi + u) % NumModes

\* a rollout that multiplies by the rot_mat of the target builder
ToGlobalSameMatrix(v, h) == ToLocal(v, h)

\* v @ rot_mat with rot_mat = [[cos, sin], [-sin, cos]] of heading h
ToGlobal(v, h) == <<v[1] * Cos(h) - v[2] * Sin(h), v[1] * Sin(h) + v[2] * Cos(h)>>

\* lines 238-241 for pos_dim = 3: pos[..., :2] @ rot_mat plus the anchor x, y,
\* and pos[..., 2] plus the anchor z
PosToGlobal(p, current_theta, anchor_pos) ==
    LET xy == ToGlobal(<<p[1], p[2]>>, current_theta)
    IN  <<xy[1] + anchor_pos[1], xy[2] + anchor_pos[2], p[3] + anchor_pos[3]>>

\* the validity patterns of an agent over the history
HistoryPatterns ==
    {[t \in 0..(NumInitSteps - 1) |-> TRUE],
     [t \in 0..(NumInitSteps - 1) |-> t = NumInitSteps - 1],
     [t \in 0..(NumInitSteps - 1) |-> t # NumInitSteps - 1],
     [t \in 0..(NumInitSteps - 1) |-> FALSE]}

\* a scene of num_steps timesteps: the history holds a track per agent, the
\* future is zero and either all valid or all invalid
RolloutScene(num_steps, ptr, hist, future_valid, h0) ==
    LET past(t) == t < NumInitSteps
        steps == 0..(num_steps - 1)
    IN  [num_nodes  |-> Cardinality(RolloutAgents),
         ptr        |-> ptr,
         id         |-> [a \in RolloutAgents |-> 100 + a],
         valid_mask |-> [a \in RolloutAgents |-> [t \in steps |->
                            IF past(t) THEN hist[a][t] ELSE future_valid]],
         position   |-> [a \in RolloutAgents |-> [t \in steps |->
                            IF past(t) THEN <<2 * a + t, a, a + 1>> ELSE <<0, 0, 0>>]],
         velocity   |-> [a \in RolloutAgents |-> [t \in steps |->
                            IF past(t) THEN <<1, 0>> ELSE <<0, 0>>]],
         heading    |-> [a \in RolloutAgents |-> [t \in steps |->
                            IF past(t) THEN (IF a = 0 THEN h0 ELSE 1) ELSE 0]],
         length     |-> [a \in RolloutAgents |-> [t \in steps |-> 4 + t]],
         width      |-> [a \in RolloutAgents |-> [t \in steps |-> 2 + t]],
         height     |-> [a \in RolloutAgents |-> [t \in steps |-> 1 + t]]]

\* the scenes of a configuration
RolloutScenes(num_rollout_steps) ==
    {RolloutScene(NumInitSteps + num_rollout_steps, ptr, hist, fv, h0) :
        ptr \in {<<0, 2>>, <<0, 1, 2>>},
        hist \in [RolloutAgents -> HistoryPatterns],
        fv \in BOOLEAN,
        h0 \in {0, 1}}

\* the nodes whose state can reach node (a, anchor) along the edges of the
\* four graphs: valid nodes of the same scene at timesteps up to the anchor;
\* an invalid node receives no edge
Context(data, a, anchor) ==
    IF ~data.valid_mask[a][anchor] THEN {}
    ELSE {n \in RolloutAgents \X (0..anchor) :
             /\ BatchOf(data.ptr, n[1]) = BatchOf(data.ptr, a)
             /\ data.valid_mask[n[1]][n[2]]}

\* a digest of the embedding x_a[a, anchor] the decoder hands to the head
Embedding(data, a, anchor) ==
    LET ctx == Context(data, a, anchor)
    IN  SumOver(ctx, [n \in ctx |->
            data.position[n[1]][n[2]][1] + data.heading[n[1]][n[2]] + data.length[n[1]][n[2]]])

\* the head's output at (a, anchor): mixture logits pi, and per mode the
\* location parameters of the NumActionSteps sub-steps in the local frame
HeadOutput(x) ==
    [pi        |-> x % NumModes,
     pos_loc   |-> [m \in 0..(NumModes - 1) |-> [j \in 0..(NumActionSteps - 1) |->
                       <<(j + 1) * (1 + m), x % 2, 1>>]],
     vel_loc   |-> [m \in 0..(NumModes - 1) |-> [j \in 0..(NumActionSteps - 1) |->
                       <<1 + m, x % 2>>]],
     theta_loc |-> [m \in 0..(NumModes - 1) |-> [j \in 0..(NumActionSteps - 1) |->
                       <<(m + j + x) % 2>>]]]

\* self(data) at the rows of the anchor timestep
Pred(data, anchor) == [a \in RolloutAgents |-> HeadOutput(Embedding(data, a, anchor))]

\* an anchor that stays at the last timestep of the history
AnchorStale(cfg, t) == cfg.num_init_steps - 1

\* the anchor timestep and the first written timestep of chunk t
Anchor(cfg, t) == cfg.num_init_steps + t * NumActionSteps - 1

\* a future slice that starts one timestep early
ChunkStartEarly(cfg, t) == cfg.num_init_steps + t * NumActionSteps - 1

ChunkStart(cfg, t) == cfg.num_init_steps + t * NumActionSteps

\* range(self.num_rollout_steps // num_action_steps)
NumChunks(cfg) == cfg.num_rollout_steps \div NumActionSteps

NoPending == [set |-> FALSE]

\* the run that enters test_step with scene and configuration.  Four fields
\* keep the history of the run: input is the scene as it was handed in, modes
\* the sample_inds of the chunks so far, writes per sample the number of times
\* each timestep of the position tensor was assigned, and last what the
\* previous chunk of the sample wrote for its last sub-step
NewRun(cfg, seed, scene) ==
    [cfg |-> cfg, seed |-> seed, draws |-> 0,
     input |-> scene, data |-> scene,
     eval_mask |-> [a \in RolloutAgents |-> FALSE],
     k |-> 0, t |-> 0, pend |-> NoPending, modes |-> <<>>,
     writes |-> <<>>, last |-> NoPending,
     traj_eval |-> <<>>, test_predictions |-> <<>>, pc |-> "prepare"]

\* a preparation that skips the clearing of line 215
RolloutValidityNoClear(valid_mask, eval_mask, init) ==
    [a \in RolloutAgents |-> [t \in DOMAIN valid_mask[a] |->
        IF t >= init /\ eval_mask[a] THEN TRUE ELSE valid_mask[a][t]]]

\* lines 215-216: valid_mask[:, init:] = False, then True in the rows of eval_mask
RolloutValidity(valid_mask, eval_mask, init) ==
    LET cleared == [a \in RolloutAgents |-> [t \in DOMAIN valid_mask[a] |->
                       IF t >= init THEN FALSE ELSE valid_mask[a][t]]]
    IN  [a \in RolloutAgents |-> [t \in DOMAIN cleared[a] |->
            IF t >= init /\ eval_mask[a] THEN TRUE ELSE cleared[a][t]]]

\* lines 214-222: eval_mask, the validity of the horizon, the frozen boxes
DoPrepare(r) ==
    LET init  == r.cfg.num_init_steps
        d     == r.data
        em    == [a \in RolloutAgents |-> d.valid_mask[a][init - 1]]
        freeze(f) == [a \in RolloutAgents |-> [t \in 0..(r.cfg.num_steps - 1) |-> f[a][init - 1]]]
    IN  [r EXCEPT
           !.eval_mask = em,
           !.data = [d EXCEPT
               !.valid_mask = RolloutValidity(d.valid_mask, em, init),
               !.length = freeze(d.length),
               !.width  = freeze(d.width),
               !.height = freeze(d.height)],
           !.pc = IF NumChunks(r.cfg) > 0 THEN "forward" ELSE "append"]

\* lines 225-231: the forward pass, the sampling and the sampled mode's
\* location parameters
DoForward(r) ==
    LET anchor == Anchor(r.cfg, r.t)
        pred   == Pred(r.data, anchor)
        inds   == [a \in RolloutAgents |->
                      Multinomial(pred[a].pi, Gen(r.seed, r.draws + a))]
    IN  [r EXCEPT
           !.draws = r.draws + Cardinality(RolloutAgents),
           !.modes = Append(r.modes, inds),
           !.writes = IF r.t = 0
                      THEN Append(r.writes, [s \in DOMAIN r.data.position[0] |-> 0])
                      ELSE r.writes,
           !.pend = [set |-> TRUE,
                     sample_inds |-> inds,
                     pos   |-> [a \in RolloutAgents |-> pred[a].pos_loc[inds[a]]],
                     vel   |-> [a \in RolloutAgents |-> pred[a].vel_loc[inds[a]]],
                     theta |-> [a \in RolloutAgents |-> pred[a].theta_loc[inds[a]]]],
           !.pc = "position"]

\* lines 233-244: the transform of pos to global coordinates and the write of
\* the position slice; pos has pos_dim components, so pos[..., 2] is out of
\* range unless pos_dim is 3
DoPosition(r) ==
    LET anchor == Anchor(r.cfg, r.t)
        start  == ChunkStart(r.cfg, r.t)
        d      == r.data
        cur    == [a \in RolloutAgents |-> d.heading[a][anchor]]
        glob(a, j) == PosToGlobal(r.pend.pos[a][j], cur[a], d.position[a][anchor])
    IN  IF r.cfg.pos_dim # 3
        THEN [r EXCEPT !.pc = "raised"]
        ELSE [r EXCEPT
                !.pend = [set |-> TRUE,
                          sample_inds |-> r.pend.sample_inds,
                          current_theta |-> cur,
                          anchor_pos |-> [a \in RolloutAgents |-> d.position[a][anchor]],
                          pos   |-> [a \in RolloutAgents |->
                                       [j \in 0..(NumActionSteps - 1) |-> glob(a, j)]],
                          vel   |-> r.pend.vel,
                          theta |-> r.pend.theta],
                !.writes = [r.writes EXCEPT ![Len(r.writes)] =
                               [s \in DOMAIN @ |->
                                   IF s >= start /\ s < start + NumActionSteps
                                   THEN @[s] + 1 ELSE @[s]]],
                !.data = [d EXCEPT !.position = [a \in RolloutAgents |->
                             [t \in DOMAIN d.position[a] |->
                                IF t >= start /\ t < start + NumActionSteps
                                THEN glob(a, t - start) ELSE d.position[a][t]]]],
                !.pc = "velocity"]

\* lines 245-246: the rotation of vel and the write of the velocity slice
DoVelocity(r) ==
    LET anchor == Anchor(r.cfg, r.t)
        start  == ChunkStart(r.cfg, r.t)
        d      == r.data
        glob(a, j) == ToGlobal(r.pend.vel[a][j], r.pend.current_theta[a])
    IN  [r EXCEPT
           !.data = [d EXCEPT !.velocity = [a \in RolloutAgents |->
                        [t \in DOMAIN d.velocity[a] |->
                           IF t >= start /\ t < start + NumActionSteps
                           THEN glob(a, t - start) ELSE d.velocity[a][t]]]],
           !.pc = "heading"]

\* a chunk that gives every sub-step the heading of the first one
SubStepHeadingFirst(current_theta, theta, j) == WrapAngle(current_theta + theta[0][1])

\* wrap_angle(current_theta.unsqueeze(-1) + theta[..., 0]) at sub-step j:
\* theta is [A, 10, theta_dim] and theta[..., 0] its component 0 per sub-step
SubStepHeading(current_theta, theta, j) == WrapAngle(current_theta + theta[j][1])

\* line 247: the write of the heading slice, and the end of the chunk
DoHeading(r) ==
    LET start  == ChunkStart(r.cfg, r.t)
        d      == r.data
        new(a, j) == SubStepHeading(r.pend.current_theta[a], r.pend.theta[a], j)
    IN  [r EXCEPT
           !.data = [d EXCEPT !.heading = [a \in RolloutAgents |->
                        [t \in DOMAIN d.heading[a] |->
                           IF t >= start /\ t < start + NumActionSteps
                           THEN new(a, t - start)
                           ELSE d.heading[a][t]]]],
           !.last = [set |-> TRUE,
                     pos |-> [a \in RolloutAgents |-> r.pend.pos[a][NumActionSteps - 1]],
                     heading |-> [a \in RolloutAgents |-> new(a, NumActionSteps - 1)]],
           !.pend = NoPending,
           !.t = r.t + 1,
           !.pc = IF r.t + 1 < NumChunks(r.cfg) THEN "forward" ELSE "append"]

\* lines 248-250: the trajectory of the sample, rows of the agents of eval_mask
DoAppend(r) ==
    LET d    == r.data
        rows == {a \in RolloutAgents : r.eval_mask[a]}
        traj == [a \in rows |->
                    [t \in r.cfg.num_init_steps..(r.cfg.num_steps - 1) |->
                        <<d.position[a][t][1], d.position[a][t][2],
                          d.position[a][t][3], d.heading[a][t]>>]]
    IN  [r EXCEPT
           !.traj_eval = Append(r.traj_eval, traj),
           !.k = r.k + 1,
           !.t = 0,
           !.last = NoPending,
           !.pc = IF r.k + 1 < NumSamples
                  THEN (IF NumChunks(r.cfg) > 0 THEN "forward" ELSE "append")
                  ELSE "record"]

\* lines 251-266: test_predictions, per scene and agent id the stacked samples
DoRecord(r) ==
    LET rows(g) == {a \in RolloutAgents : r.eval_mask[a] /\ BatchOf(r.data.ptr, a) = g}
    IN  [r EXCEPT
           !.test_predictions =
               [g \in 0..(NumGraphs(r.data.ptr) - 1) |->
                   [i \in {r.data.id[a] : a \in rows(g)} |->
                       [s \in 1..Len(r.traj_eval) |->
                           r.traj_eval[s][CHOOSE a \in rows(g) : r.data.id[a] = i]]]],
           !.pc = "done"]

\* the configurations and runs a test starts from
RolloutConfigs ==
    [num_init_steps : {NumInitSteps}, num_rollout_steps : RolloutHorizons,
     num_steps : {NumInitSteps + h : h \in RolloutHorizons}, pos_dim : PosDims]

\* num_steps, num_init_steps and num_rollout_steps are separate options; the
\* scene has num_steps timesteps, at least the boundary plus the horizon
NewRuns ==
    UNION {{NewRun(cfg, seed, scene) :
               seed \in 0..MaxSeed,
               scene \in RolloutScenes(cfg.num_steps - cfg.num_init_steps)} :
           cfg \in {c \in RolloutConfigs : c.num_steps >= c.num_init_steps + c.num_rollout_steps}}

NoRun == [pc |-> "off"]

\* the steps of test_step on the run ro
Prepare ==
    /\ ro.pc = "prepare" /\ ro' = DoPrepare(ro)
    /\ UNCHANGED <<filterVars, graphVars, targetVars, pair>>
ChunkForward ==
    /\ ro.pc = "forward" /\ ro' = DoForward(ro)
    /\ UNCHANGED <<filterVars, graphVars, targetVars, pair>>
ChunkPosition ==
    /\ ro.pc = "position" /\ ro' = DoPosition(ro)
    /\ UNCHANGED <<filterVars, graphVars, targetVars, pair>>
ChunkVelocity ==
    /\ ro.pc = "velocity" /\ ro' = DoVelocity(ro)
    /\ UNCHANGED <<filterVars, graphVars, targetVars, pair>>
ChunkHeading ==
    /\ ro.pc = "heading" /\ ro' = DoHeading(ro)
    /\ UNCHANGED <<filterVars, graphVars, targetVars, pair>>
AppendTraj ==
    /\ ro.pc = "append" /\ ro' = DoAppend(ro)
    /\ UNCHANGED <<filterVars, graphVars, targetVars, pair>>
Record ==
    /\ ro.pc = "record" /\ ro' = DoRecord(ro)
    /\ UNCHANGED <<filterVars, graphVars, targetVars, pair>>

\* two invocations of test_step on one scene and configuration, each with its
\* own seed, advancing together; the two are interchangeable, so the first
\* takes the smaller seed
PairRuns ==
    {[i \in 1..2 |-> NewRun(cfg, IF i = 1 THEN s[1] ELSE s[2], scene)] :
        s \in {x \in (0..MaxSeed) \X (0..MaxSeed) : x[1] <= x[2]},
        cfg \in {c \in RolloutConfigs : c.num_rollout_steps = 2 * NumActionSteps
                                         /\ c.num_steps = NumInitSteps + 2 * NumActionSteps
                                         /\ c.pos_dim = 3},
        scene \in RolloutScenes(2 * NumActionSteps)}

NoPair == <<NoRun, NoRun>>

PairAt(pc) == pair[1].pc = pc /\ pair[2].pc = pc

PairPrepare ==
    /\ PairAt("prepare") /\ pair' = [i \in 1..2 |-> DoPrepare(pair[i])]
    /\ UNCHANGED <<filterVars, graphVars, targetVars, ro>>
PairForward ==
    /\ PairAt("forward") /\ pair' = [i \in 1..2 |-> DoForward(pair[i])]
    /\ UNCHANGED <<filterVars, graphVars, targetVars, ro>>
PairPosition ==
    /\ PairAt("position") /\ pair' = [i \in 1..2 |-> DoPosition(pair[i])]
    /\ UNCHANGED <<filterVars, graphVars, targetVars, ro>>
PairVelocity ==
    /\ PairAt("velocity") /\ pair' = [i \in 1..2 |-> DoVelocity(pair[i])]
    /\ UNCHANGED <<filterVars, graphVars, targetVars, ro>>
PairHeading ==
    /\ PairAt("heading") /\ pair' = [i \in 1..2 |-> DoHeading(pair[i])]
    /\ UNCHANGED <<filterVars, graphVars, targetVars, ro>>
PairAppend ==
    /\ PairAt("append") /\ pair' = [i \in 1..2 |-> DoAppend(pair[i])]
    /\ UNCHANGED <<filterVars, graphVars, targetVars, ro>>
PairRecord ==
    /\ PairAt("record") /\ pair' = [i \in 1..2 |-> DoRecord(pair[i])]
    /\ UNCHANGED <<filterVars, graphVars, targetVars, ro>>

\* the headings, positions and velocities of the scenes whose targets are
\* decoded: all four quarter turns, steps off the axes
DecodeHeadings == 0..3
DecodePositions == {<<1, 2, 1>>, <<3, 0 - 1, 2>>}
DecodeVelocities == {<<0, 0>>, <<1, 2>>}

\* a scene of one agent for the target builder, with the pos_dim the rollout
\* is configured with
DecodeScenes ==
    [valid_mask : {[t \in 0..(TargetSteps - 1) |-> TRUE]},
     position   : [0..(TargetSteps - 1) -> DecodePositions],
     heading    : [0..(TargetSteps - 1) -> DecodeHeadings],
     velocity   : [0..(TargetSteps - 1) -> DecodeVelocities],
     pos_dim    : PosDims]

\* the rollout transform of test_step (lines 233-246) at anchor s, applied to
\* a head output that equals the target of (s, k) for every offset k: pos is
\* target[..., :3], vel is target[..., 3:5]
DecodeTarget ==
    /\ tstat = "built"
    /\ IF tin.pos_dim # 3
       THEN /\ tstat' = "raised"
            /\ tout' = tout
       ELSE /\ tstat' = "decoded"
            /\ tout' = [built |-> TRUE, target |-> tout.target,
                        decoded |->
                          [s \in DOMAIN tout.target |-> [k \in DOMAIN tout.target[s] |->
                              LET e == tout.target[s][k]
                              IN  [position |-> PosToGlobal(<<e[1], e[2], e[3]>>,
                                                            tin.heading[s], tin.position[s]),
                                   velocity |-> ToGlobal(<<e[4], e[5]>>, tin.heading[s])]]]]
    /\ UNCHANGED <<tin, filterVars, graphVars, ro, pair>>

(***************************************************************************)
(* Specifications: one per component, the other components idle           *)
(***************************************************************************)
FilterIdle == fin = NoScene /\ fout = NoScene /\ fstat = "off"
GraphIdle == gin = NoGraphs /\ gout = NoGraphs /\ gstat = "off"
TargetIdle == tin = NoTarget /\ tout = NoTarget /\ tstat = "off"
RolloutIdle == ro = NoRun
PairIdle == pair = NoPair

FilterInit ==
    /\ fin \in FilterScenes
    /\ fout = NoScene
    /\ fstat = "input"
    /\ GraphIdle
    /\ TargetIdle
    /\ RolloutIdle
    /\ PairIdle

SpecFilter == FilterInit /\ [][FilterCall]_vars

GraphInit ==
    /\ gin \in GraphInputs
    /\ gout = NoGraphs
    /\ gstat = "input"
    /\ FilterIdle
    /\ TargetIdle
    /\ RolloutIdle
    /\ PairIdle

SpecGraph == GraphInit /\ [][Forward]_vars

TargetInit ==
    /\ tin \in TargetScenes
    /\ tout = NoTarget
    /\ tstat = "input"
    /\ FilterIdle
    /\ GraphIdle
    /\ RolloutIdle
    /\ PairIdle

TargetNext == TargetCall \/ TrainingStep

SpecTarget == TargetInit /\ [][TargetNext]_vars

RolloutInit ==
    /\ ro \in NewRuns
    /\ FilterIdle
    /\ GraphIdle
    /\ TargetIdle
    /\ PairIdle

RolloutNext ==
    \/ Prepare
    \/ ChunkForward
    \/ ChunkPosition
    \/ ChunkVelocity
    \/ ChunkHeading
    \/ AppendTraj
    \/ Record

SpecRollout == RolloutInit /\ [][RolloutNext]_vars

PairInit ==
    /\ pair \in PairRuns
    /\ FilterIdle
    /\ GraphIdle
    /\ TargetIdle
    /\ RolloutIdle

PairNext ==
    \/ PairPrepare
    \/ PairForward
    \/ PairPosition
    \/ PairVelocity
    \/ PairHeading
    \/ PairAppend
    \/ PairRecord

SpecRolloutPair == PairInit /\ [][PairNext]_vars

DecodeInit ==
    /\ tin \in DecodeScenes
    /\ tout = NoTarget
    /\ tstat = "input"
    /\ FilterIdle
    /\ GraphIdle
    /\ RolloutIdle
    /\ PairIdle

DecodeNext == TargetCall \/ DecodeTarget

SpecDecode == DecodeInit /\ [][DecodeNext]_vars

(***************************************************************************)
(* Claims about SimAgentFilter (checked under SpecFilter)                  *)
(***************************************************************************)
Downselected == fstat = "returned" /\ fin.num_nodes > MaxNumAgents

\* the output rows that hold the input agent a
RowsOf(a) == {i \in AgentsOf(fout) : fout.id[i] = fin.id[a]}

\* C2: after a downselection, the id stored at output index av_index is the
\* id the ego agent had at the input av_index.
C2_AvIndexIsEgo ==
    Downselected => fout.id[fout.av_index] = fin.id[fin.av_index]

\* C3: every scene the filter returns has at most max_num_agents agents, in
\* num_nodes and in the first dimension of every per-agent tensor.
C3_CountWithinBudget ==
    fstat = "returned" =>
        /\ fout.num_nodes <= MaxNumAgents
        /\ Cardinality(DOMAIN fout.id) <= MaxNumAgents
        /\ Cardinality(DOMAIN fout.valid_mask) <= MaxNumAgents
        /\ Cardinality(DOMAIN fout.target_mask) <= MaxNumAgents
        /\ Cardinality(DOMAIN fout.type) <= MaxNumAgents
        /\ Cardinality(DOMAIN fout.position) <= MaxNumAgents
        /\ Cardinality(DOMAIN fout.heading) <= MaxNumAgents
        /\ Cardinality(DOMAIN fout.velocity) <= MaxNumAgents
        /\ Cardinality(DOMAIN fout.length) <= MaxNumAgents
        /\ Cardinality(DOMAIN fout.width) <= MaxNumAgents
        /\ Cardinality(DOMAIN fout.height) <= MaxNumAgents

\* a downselection that fills the budget exactly
C3_Witness ==
    /\ Downselected
    /\ fout.num_nodes = MaxNumAgents
    /\ fout.num_nodes < fin.num_nodes

\* C4: after a downselection the ego agent and every track-to-predict agent
\* are in the output, whatever their distance to the ego, their validity at
\* the reference timestep and their number of valid timesteps.
C4_EgoAndTargetsKept ==
    Downselected =>
        /\ RowsOf(fin.av_index) # {}
        /\ \A a \in AgentsOf(fin) : fin.target_mask[a] => RowsOf(a) # {}

\* a kept track-to-predict agent that is never valid and lies farther from
\* the ego than an agent that was dropped
C4_Witness ==
    /\ Downselected
    /\ \E a \in AgentsOf(fin) : \E b \in AgentsOf(fin) :
          /\ a # fin.av_index
          /\ fin.target_mask[a]
          /\ RowsOf(a) # {}
          /\ \A s \in FilterSteps : ~fin.valid_mask[a][s]
          /\ RowsOf(b) = {}
          /\ fin.valid_mask[b][NumHistoricalSteps - 1]
          /\ Dist2(fin.position[b], fin.position[fin.av_index])
               < Dist2(fin.position[a], fin.position[fin.av_index])

\* C5: every output row is the copy of one input agent's row in every
\* per-agent tensor, no input agent appears twice, and ids are preserved.
C5_IdentityPreserved ==
    Downselected =>
        /\ \A i \in AgentsOf(fout) : \E a \in AgentsOf(fin) :
              /\ fout.id[i] = fin.id[a]
              /\ fout.valid_mask[i] = fin.valid_mask[a]
              /\ fout.target_mask[i] = fin.target_mask[a]
              /\ fout.type[i] = fin.type[a]
              /\ fout.position[i] = fin.position[a]
              /\ fout.heading[i] = fin.heading[a]
              /\ fout.velocity[i] = fin.velocity[a]
              /\ fout.length[i] = fin.length[a]
              /\ fout.width[i] = fin.width[a]
              /\ fout.height[i] = fin.height[a]
        /\ \A a \in AgentsOf(fin) : Cardinality(RowsOf(a)) <= 1

\* a downselection whose concatenated agent_inds named the ego twice (the
\* ego is itself a track-to-predict agent) and that dropped an agent
C5_Witness ==
    /\ Downselected
    /\ fin.target_mask[fin.av_index]
    /\ Cardinality(RowsOf(fin.av_index)) = 1
    /\ \E b \in AgentsOf(fin) : RowsOf(b) = {}

(***************************************************************************)
(* Claims about the graph construction (checked under SpecGraph)           *)
(***************************************************************************)
\* agent and timestep of an agent-major node, and of a time-major node
TAgent(n) == n \div gin.num_steps
TTime(n) == n % gin.num_steps
SAgent(n) == n % gin.num_nodes
STime(n) == n \div gin.num_nodes
ValidAt(a, t) == gin.valid_mask[a][t]
SceneOfAgent(a) == BatchOf(gin.ptr, a)
SceneOfMapPoint(m) == BatchOf(gin.map_ptr, m)

\* C6: the full-temporal graph has an edge (i, j) of one agent only if both
\* timesteps are valid, i < j and j - i is a positive multiple of the
\* configured stride (the time_span option).
C6_StrideIsTimeSpan ==
    gstat = "built" =>
        \A e \in gout.edge_index_t :
            /\ TAgent(e[1]) = TAgent(e[2])
            /\ ValidAt(TAgent(e[1]), TTime(e[1]))
            /\ ValidAt(TAgent(e[2]), TTime(e[2]))
            /\ TTime(e[1]) < TTime(e[2])
            /\ (TTime(e[2]) - TTime(e[1])) % TimeSpanOf(gin.time_span, gin.num_steps) = 0

\* C7: the patch graph is exactly the set of pairs (i, j) of timesteps of one
\* agent, both valid, i < j and j - i < 10, with i the first index and j the
\* second; no edge joins two agents or has an invalid end.
C7_PatchGraphExact ==
    gstat = "built" =>
        gout.edge_index_patch =
            {<<x[1] * gin.num_steps + x[2], x[1] * gin.num_steps + x[3]>> :
                x \in {y \in (0..(gin.num_nodes - 1)) \X (0..(gin.num_steps - 1))
                                \X (0..(gin.num_steps - 1)) :
                          /\ ValidAt(y[1], y[2]) /\ ValidAt(y[1], y[3])
                          /\ y[2] < y[3]
                          /\ y[3] - y[2] < 10}}

\* a built patch graph of a scene where one agent is valid 9 and 10 steps
\* apart and has an invalid timestep in between, next to another valid agent
C7_Witness ==
    /\ gstat = "built"
    /\ gin.num_steps > 10
    /\ ValidAt(0, 0) /\ ValidAt(0, 9) /\ ValidAt(0, 10) /\ ~ValidAt(0, 5)
    /\ ValidAt(1, 0)
    /\ <<0, 9>> \in gout.edge_index_patch
    /\ <<0, 10>> \notin gout.edge_index_patch

\* C8: in a batch of two or more scenes, on the neighbour-search path and on
\* the all-pairs path, no edge of any of the four graphs joins two scenes,
\* and every agent-to-agent edge joins two different agents at one timestep.
C8_SceneIsolation ==
    (gstat = "built" /\ NumGraphs(gin.ptr) >= 2) =>
        /\ \A e \in gout.edge_index_patch \cup gout.edge_index_t :
              SceneOfAgent(TAgent(e[1])) = SceneOfAgent(TAgent(e[2]))
        /\ \A e \in gout.edge_index_m2a :
              SceneOfMapPoint(e[1]) = SceneOfAgent(TAgent(e[2]))
        /\ \A e \in gout.edge_index_a2a :
              /\ SceneOfAgent(SAgent(e[1])) = SceneOfAgent(SAgent(e[2]))
              /\ SAgent(e[1]) # SAgent(e[2])
              /\ STime(e[1]) = STime(e[2])

\* a built batch of two scenes with all four graphs non-empty, in which an
\* agent of the other scene stands on the same spot at a timestep of an edge
C8_Witness ==
    /\ gstat = "built"
    /\ NumGraphs(gin.ptr) >= 2
    /\ gout.edge_index_patch # {}
    /\ gout.edge_index_t # {}
    /\ gout.edge_index_m2a # {}
    /\ \E e \in gout.edge_index_a2a : \E b \in 0..(gin.num_nodes - 1) :
          /\ SceneOfAgent(b) # SceneOfAgent(SAgent(e[2]))
          /\ ValidAt(b, STime(e[2]))
          /\ gin.position[b][STime(e[2])] = gin.position[SAgent(e[2])][STime(e[2])]

(***************************************************************************)
(* Claims about the target construction (checked under SpecTarget)         *)
(***************************************************************************)
BeyondLast(s, k) == s + k + 1 > TargetSteps - 1
NonPredictable(s, k) ==
    \/ ~tin.valid_mask[s]
    \/ BeyondLast(s, k)
    \/ ~tin.valid_mask[s + k + 1]

\* C10 as stated: the target of every non-predictable entry (timestep t
\* invalid, timestep t + k + 1 invalid or beyond the last timestep) is zero
\* in all components.
C10_ZeroWhereNotPredictable ==
    tstat \in {"built", "trained"} =>
        \A s \in 0..(TargetSteps - 1) : \A k \in 0..(NumOffsets - 1) :
            NonPredictable(s, k) => tout.target[s][k] = ZeroTarget

\* C10 as amended: the target is zero in all components wherever t + k + 1
\* lies beyond the last timestep, and every non-predictable entry has a false
\* predict_mask in training_step.
C10_ZeroBeyondLastAndMasked ==
    /\ tstat \in {"built", "trained"} =>
          \A s \in 0..(TargetSteps - 1) : \A k \in 0..(NumOffsets - 1) :
              BeyondLast(s, k) => tout.target[s][k] = ZeroTarget
    /\ tstat = "trained" =>
          \A s \in 0..(TargetSteps - 1) : \A k \in 0..(NumOffsets - 1) :
              NonPredictable(s, k) => ~tout.predict_mask[s][k]

\* a trained scene with a non-zero target at an entry whose target timestep
\* is invalid, masked out, and a predictable entry next to it
C10_Witness ==
    /\ tstat = "trained"
    /\ tin.valid_mask[0] /\ ~tin.valid_mask[1] /\ tin.valid_mask[2]
    /\ tout.target[0][0] # ZeroTarget
    /\ ~tout.predict_mask[0][0]
    /\ tout.predict_mask[0][1]
    /\ tout.target[0][2] = ZeroTarget

(***************************************************************************)
(* Claims about the rollout (checked under SpecRollout, SpecRolloutPair)   *)
(***************************************************************************)
Started == ro.pc # "off"

\* C1: at every point of test_step (after any number of chunks and samples)
\* position and heading of every agent at every timestep before
\* num_init_steps are those of the input scene; the writes of the chunks
\* (position, velocity, heading) leave those timesteps alone.
C1_HistoryImmutable ==
    Started =>
        \A a \in RolloutAgents : \A t \in 0..(ro.cfg.num_init_steps - 1) :
            /\ ro.data.position[a][t] = ro.input.position[a][t]
            /\ ro.data.heading[a][t] = ro.input.heading[a][t]
            /\ ro.data.velocity[a][t] = ro.input.velocity[a][t]

\* a finished test_step of two chunks per sample whose chunks rewrote the
\* future of an agent
C1_Witness ==
    /\ ro.pc = "done"
    /\ NumChunks(ro.cfg) = 2
    /\ Len(ro.traj_eval) = NumSamples
    /\ \E a \in RolloutAgents :
          /\ ro.eval_mask[a]
          /\ \A t \in ro.cfg.num_init_steps..(ro.cfg.num_steps - 1) :
                ro.data.position[a][t] # ro.input.position[a][t]

\* the chunks of the two invocations in execution order: chunk g is chunk
\* g % NumChunks of sample g \div NumChunks
ModesDifferAt(g) == pair[1].modes[g + 1] # pair[2].modes[g + 1]
ChunksRun == Len(pair[1].modes)
\* the chunk that wrote timestep t of sample s
ChunkOf(s, t) ==
    s * NumChunks(pair[1].cfg) + ((t - pair[1].cfg.num_init_steps) \div NumActionSteps)
\* no chunk up to and including chunk g sampled different modes
SameModesThrough(g) ==
    \A h \in 0..g : h < ChunksRun /\ ~ModesDifferAt(h)

\* C9: two invocations on the same scene agree on the simulated trajectory of
\* every agent, sample and timestep written before the first chunk whose
\* sampled modes differ; with the same sampled modes throughout (the same
\* seed) they agree on all of them.
C9_AgreeBeforeFirstDifferingChunk ==
    pair[1].pc # "off" =>
        /\ Len(pair[1].traj_eval) = Len(pair[2].traj_eval)
        /\ \A s \in 1..Len(pair[1].traj_eval) :
              /\ DOMAIN pair[1].traj_eval[s] = DOMAIN pair[2].traj_eval[s]
              /\ \A a \in DOMAIN pair[1].traj_eval[s] :
                    \A t \in DOMAIN pair[1].traj_eval[s][a] :
                        SameModesThrough(ChunkOf(s - 1, t)) =>
                            pair[1].traj_eval[s][a][t] = pair[2].traj_eval[s][a][t]
        /\ (pair[1].pc = "done" /\ SameModesThrough(ChunksRun - 1)) =>
              pair[1].test_predictions = pair[2].test_predictions

\* two finished invocations with different seeds whose first chunk sampled
\* the same modes and whose second did not: the first sample's trajectories
\* agree on the first chunk and differ later
C9_Witness ==
    /\ pair[1].pc = "done"
    /\ pair[1].seed # pair[2].seed
    /\ ~ModesDifferAt(0)
    /\ ModesDifferAt(1)
    /\ \E a \in DOMAIN pair[1].traj_eval[1] :
          /\ \A t \in pair[1].cfg.num_init_steps..(pair[1].cfg.num_init_steps + NumActionSteps - 1) :
                pair[1].traj_eval[1][a][t] = pair[2].traj_eval[1][a][t]
          /\ pair[1].traj_eval[1][a][pair[1].cfg.num_steps - 1]
               # pair[2].traj_eval[1][a][pair[1].cfg.num_steps - 1]

\* the timesteps of the configured horizon and the states in which the chunks
\* of every started sample have run
Horizon == ro.cfg.num_init_steps..(ro.cfg.num_init_steps + ro.cfg.num_rollout_steps - 1)
ChunksOver == ro.pc \in {"append", "record", "done"}

\* C11: once the chunks of a sample are over, every timestep of
\* [num_init_steps, num_init_steps + num_rollout_steps) has been written by
\* exactly one chunk of that sample, whatever the configured num_rollout_steps.
C11_FullHorizonWritten ==
    ChunksOver =>
        \A s \in 1..Len(ro.writes) : \A t \in Horizon : ro.writes[s][t] = 1

\* the sample in progress has run its forward pass at least once, and the
\* number of its chunks that have written their positions
SampleStarted == Started /\ "writes" \in DOMAIN ro /\ Len(ro.writes) = ro.k + 1
PositionsWritten == IF ro.pc \in {"velocity", "heading"} THEN ro.t + 1 ELSE ro.t

\* C12: within a sample the chunks run in increasing order: after c chunks
\* exactly the timesteps [num_init_steps, num_init_steps + 10*c) have been
\* written, each once; chunk c reads its anchor position and heading at
\* timestep num_init_steps + 10*c - 1, and for c >= 1 these are the values
\* chunk c-1 wrote for its last sub-step, untouched in between.
C12_ChunkOrder ==
    SampleStarted /\ ro.pc \in {"forward", "position", "velocity", "heading", "append"} =>
        LET init == ro.cfg.num_init_steps
            at   == init + NumActionSteps * ro.t - 1
        IN  /\ \A s \in DOMAIN ro.writes[ro.k + 1] :
                  ro.writes[ro.k + 1][s] =
                      IF s >= init /\ s < init + NumActionSteps * PositionsWritten
                      THEN 1 ELSE 0
            /\ ro.pc \in {"velocity", "heading"} =>
                  \A a \in RolloutAgents :
                      /\ ro.pend.current_theta[a] = ro.data.heading[a][at]
                      /\ ro.pend.anchor_pos[a] = ro.data.position[a][at]
            /\ (ro.t >= 1 /\ ro.pc # "append") =>
                  /\ ro.last.set
                  /\ \A a \in RolloutAgents :
                        /\ ro.data.position[a][at] = ro.last.pos[a]
                        /\ ro.data.heading[a][at] = ro.last.heading[a]

\* the second chunk of a sample has read, as its anchor, a position the first
\* chunk wrote
C12_Witness ==
    /\ ro.pc = "heading"
    /\ ro.t = 1
    /\ \E a \in RolloutAgents :
          /\ ro.eval_mask[a]
          /\ ro.pend.anchor_pos[a] = ro.last.pos[a]
          /\ ro.pend.anchor_pos[a] # ro.input.position[a][ro.cfg.num_init_steps + NumActionSteps - 1]

\* the agents valid at the last timestep of the history of the input scene
ValidAtBoundary(a) == ro.input.valid_mask[a][ro.cfg.num_init_steps - 1]
Prepared == Started /\ ro.pc # "prepare"

\* C13: from the preparation on, through all chunks and samples, an agent is
\* valid at every timestep >= num_init_steps exactly if it was valid at
\* timestep num_init_steps - 1 of the input, and the trajectories kept per
\* sample and the recorded predictions hold exactly the agents valid there.
C13_SimulatedAreValidAtBoundary ==
    Prepared =>
        /\ \A a \in RolloutAgents :
              \A t \in ro.cfg.num_init_steps..(ro.cfg.num_steps - 1) :
                  ro.data.valid_mask[a][t] = ValidAtBoundary(a)
        /\ \A s \in 1..Len(ro.traj_eval) :
              DOMAIN ro.traj_eval[s] = {a \in RolloutAgents : ValidAtBoundary(a)}
        /\ ro.pc = "done" =>
              UNION {DOMAIN ro.test_predictions[g] : g \in DOMAIN ro.test_predictions}
                  = {ro.input.id[a] : a \in {b \in RolloutAgents : ValidAtBoundary(b)}}

\* a finished test_step on a scene with one agent valid at the boundary and
\* one not, whose input marked the future of the latter valid
C13_Witness ==
    /\ ro.pc = "done"
    /\ \E a, b \in RolloutAgents :
          /\ ValidAtBoundary(a)
          /\ ~ValidAtBoundary(b)
          /\ ro.input.valid_mask[b][ro.cfg.num_init_steps]
          /\ ~ro.data.valid_mask[b][ro.cfg.num_init_steps]
          /\ a \in DOMAIN ro.traj_eval[1]
          /\ b \notin DOMAIN ro.traj_eval[1]

\* C14: within a chunk no step before the last computation (the forward pass
\* and sampling, the position transform, the velocity transform) writes the
\* scene: the scene changes only once the whole chunk has been computed.
C14_WritesAfterComputation ==
    [][(Started /\ ro.pc \in {"forward", "position", "velocity"}) => ro'.data = ro.data]_vars

\* C15: the recorded output maps each scene of the batch to a mapping from
\* agent id to NumSamples trajectories of num_rollout_steps entries
\* (x, y, z, heading); every simulated agent is found under its own id in its
\* own scene's entry, and its s-th trajectory is the one sample s wrote.
C15_RecordedOutput ==
    (Started /\ ro.pc = "done") =>
        /\ DOMAIN ro.test_predictions = 0..(NumGraphs(ro.data.ptr) - 1)
        /\ \A a \in RolloutAgents : ro.eval_mask[a] =>
              LET g == BatchOf(ro.data.ptr, a)
                  i == ro.data.id[a]
              IN  /\ i \in DOMAIN ro.test_predictions[g]
                  /\ Len(ro.test_predictions[g][i]) = NumSamples
                  /\ \A s \in 1..NumSamples :
                        /\ ro.test_predictions[g][i][s] = ro.traj_eval[s][a]
                        /\ Cardinality(DOMAIN ro.test_predictions[g][i][s])
                              = ro.cfg.num_rollout_steps
                        /\ \A t \in DOMAIN ro.test_predictions[g][i][s] :
                              Len(ro.test_predictions[g][i][s][t]) = 4

\* the sub-steps of a chunk, and the anchor and first timestep of the chunk
\* in progress, as the claims state them
SubSteps == 0..(NumActionSteps - 1)
AnchorStep == ro.cfg.num_init_steps + NumActionSteps * ro.t - 1
FirstStep == ro.cfg.num_init_steps + NumActionSteps * ro.t

\* C16 as stated: the heading written to each of the 10 sub-steps of a chunk
\* is one value, the wrapped sum of the anchor heading and the sampled mode's
\* predicted relative heading at the first sub-step.
C16_FirstSubStepHeading ==
    [][(Started /\ ro.pc = "heading") =>
          \A a \in RolloutAgents : \A j \in SubSteps :
              ro'.data.heading[a][FirstStep + j] =
                  WrapAngle(ro.data.heading[a][AnchorStep] + ro.pend.theta[a][0][1])]_vars

\* C16 as amended: the heading written to sub-step j of a chunk is the wrapped
\* sum of the anchor heading and the sampled mode's predicted relative heading
\* at sub-step j, and the velocity written to sub-step j is the sampled mode's
\* predicted velocity at sub-step j turned by the anchor heading.
C16_PerSubStepHeading ==
    [][(Started /\ ro.pc \in {"velocity", "heading"}) =>
          \A a \in RolloutAgents : \A j \in SubSteps :
              /\ ro.pc = "heading" =>
                    ro'.data.heading[a][FirstStep + j] =
                        WrapAngle(ro.data.heading[a][AnchorStep] + ro.pend.theta[a][j][1])
              /\ ro.pc = "velocity" =>
                    ro'.data.velocity[a][FirstStep + j] =
                        ToGlobal(ro.pend.vel[a][j], ro.data.heading[a][AnchorStep])]_vars

\* a sample whose first chunk gave two of its sub-steps different headings
C16_Witness ==
    /\ ro.pc = "append"
    /\ \E a \in RolloutAgents :
          /\ ro.eval_mask[a]
          /\ ro.data.heading[a][ro.cfg.num_init_steps]
               # ro.data.heading[a][ro.cfg.num_init_steps + 1]

\* C17: with pos_dim = 3 a chunk writes z = z at the anchor timestep + the
\* predicted delta; with pos_dim = 2 every chunk completes and, once the
\* chunks of a sample are over, z of every simulated agent at every timestep
\* of the horizon is its z at timestep num_init_steps - 1.
C17_Elevation ==
    Started =>
        /\ (ro.cfg.pos_dim = 3 /\ ro.pc = "velocity") =>
              \A a \in RolloutAgents : \A j \in SubSteps :
                  ro.data.position[a][FirstStep + j][3] =
                      ro.data.position[a][AnchorStep][3]
                        + Pred(ro.data, AnchorStep)[a].pos_loc[ro.pend.sample_inds[a]][j][3]
        /\ ro.cfg.pos_dim = 2 =>
              /\ ro.pc # "raised"
              /\ ChunksOver =>
                    \A a \in RolloutAgents : \A t \in Horizon :
                        ro.eval_mask[a] =>
                            ro.data.position[a][t][3] =
                                ro.data.position[a][ro.cfg.num_init_steps - 1][3]

(***************************************************************************)
(* Further claims about the graphs (checked under SpecGraph)               *)
(***************************************************************************)
\* the (agent, timestep) nodes of a scene that holds map points
HasMapPoint(n) ==
    \E m \in 0..(gin.map_num_nodes - 1) : SceneOfMapPoint(m) = SceneOfAgent(TAgent(n))

\* C18 as stated: invalid (agent, timestep) nodes are removed before the
\* map-to-agent candidates are generated, so the search returns nothing for an
\* invalid node, and the graph has no edge whose destination is invalid.
C18_MaskBeforeSearch ==
    gstat = "built" =>
        /\ \A n \in gout.m2a_queried : MaskT(gin)[n]
        /\ \A e \in gout.edge_index_m2a : MaskT(gin)[e[2]]

\* C18 as amended: the map-to-agent candidates are generated for every
\* (agent, timestep) node of a scene with map points, valid or not, and the
\* mask is applied to the result: the graph has no edge whose destination is
\* invalid.
C18_MaskAfterSearch ==
    gstat = "built" =>
        /\ \A n \in 0..(NumTNodes(gin) - 1) : HasMapPoint(n) => n \in gout.m2a_queried
        /\ \A e \in gout.edge_index_m2a : MaskT(gin)[e[2]] /\ e[2] \in gout.m2a_queried

\* a built graph whose search returned a map point for an invalid node, next
\* to a valid node that kept its edge
C18_Witness ==
    /\ gstat = "built"
    /\ \E n \in gout.m2a_queried : ~MaskT(gin)[n]
    /\ gout.edge_index_m2a # {}

C19_InvalidNotConsumed ==
    Started =>
        \A a \in RolloutAgents : ~ValidAtBoundary(a) =>
            /\ ro.data.position[a] = ro.input.position[a]
            /\ ro.data.velocity[a] = ro.input.velocity[a]
            /\ ro.data.heading[a] = ro.input.heading[a]

(***************************************************************************)
(* Claim about the two frame transforms (checked under SpecDecode)         *)
(***************************************************************************)
\* C21: for every anchor timestep s and offset k inside the scene, the rollout
\* transform at anchor s (rotate by the anchor heading, add the anchor
\* position; velocity rotated only) applied to the displacement and velocity
\* SimTargetBuilder stored in target[s, k] gives back the global position and
\* velocity of timestep s + k + 1.
C21_FrameRoundTrip ==
    tstat = "decoded" =>
        \A s \in DOMAIN tin.position : \A k \in 0..(NumOffsets - 1) :
            InSlice(StepsOf(tin), s, k) =>
                /\ tout.decoded[s][k].position = tin.position[s + k + 1]
                /\ tout.decoded[s][k].velocity = tin.velocity[s + k + 1]

\* a decoded scene whose anchor heads a quarter turn off the x axis, where the
\* stored displacement and velocity differ from the global ones
C21_Witness ==
    /\ tstat = "decoded"
    /\ tin.heading[0] = 1
    /\ tin.position[0] = <<1, 2, 1>>
    /\ tin.position[1] = <<3, 0 - 1, 2>>
    /\ tin.velocity[1] = <<1, 2>>
    /\ tout.target[0][0] = <<0 - 3, 0 - 2, 1, 2, 0 - 1, WrapAngle(tin.heading[1] - 1)>>
    /\ tout.decoded[0][0].position = <<3, 0 - 1, 2>>
    /\ tout.decoded[0][0].velocity = <<1, 2>>

====
